---- MODULE Spec2Model ----
(***************************************************************************)
(* Cosmo-Focus: the Pomodoro timer of App.tsx (src/unnamed/part_001), its  *)
(* task handlers and its daily statistics, as a state machine.             *)
(*                                                                         *)
(* One action is one browser event (a click, an input change, one second   *)
(* of wall-clock time, a page reload, midnight) together with everything   *)
(* React does before the next event can be handled: the handler's batched  *)
(* state updates, the re-render, and the effects whose dependencies        *)
(* changed, repeated until no effect queues a further update.              *)
(***************************************************************************)
EXTENDS Integers, Sequences, FiniteSets, TLC

\* ---------------------------------------------------------------- bounds
MaxDay         == 2      \* calendar days the clock runs through
MaxAdds        == 2      \* tasks ever created (identifiers 1..MaxAdds)
MaxCompletions == 2      \* completions (natural or Skip) per behaviour
MaxDuration    == 2      \* largest duration typed into a minutes field
MaxEstimate    == 4      \* largest estimate typed into a pomodoros field
ActWindow      == 1      \* while the countdown runs, the user acts (and midnight
                         \* falls) within this many seconds of its start or end

\* The unit of the countdown. App.tsx turns minutes into seconds by "* 60" and
\* reads the product only to decrement it and to compare it with 0 and with
\* another such product; the model keeps the multiplication and scales the
\* factor down, so that a countdown of m minutes is m * SecondsPerMinute ticks.
SecondsPerMinute == 2

\* ------------------------------------------------------ program constants
DefaultPomodoroTime   == 25
DefaultBreakTime      == 5
DefaultTaskDuration   == 25
DefaultDailyGoalPomos == 8

\* The numbers that are no integers. A field of a task holds a JavaScript
\* number: parseInt of a text without digits is NaN, and JSON.stringify writes
\* NaN as null. The model writes the two as integers below every number a
\* field can be given.
NaN  == -1000
Null == -1001

POMODORO == "pomodoro"
BREAK    == "break"
TimerMode == {POMODORO, BREAK}

NoTask == 0              \* activeTaskId === null

Durations == 1 .. MaxDuration

VARIABLES
  mode,          \* useState<TimerMode>
  timeLeft,      \* useState: remaining seconds
  isActive,      \* useState: running flag
  settings,      \* useStickyState<AppSettings>
  tasks,         \* useStickyState<Task[]>
  activeTaskId,  \* useState<string | null>
  dailyStats,    \* useStickyState<DailyStats[]>
  timerRefLive,  \* timerRef.current is an interval that has not been cleared
  intervals,     \* number of intervals scheduled by setInterval and not cleared
  storage,       \* window.localStorage: the three persisted records
  today,         \* the clock source: getToday()
  nextId,        \* identifiers handed out so far by crypto.randomUUID
  sounds,        \* cues played by the last event
  lastOp,        \* the last event handled
  completed,     \* handleTimerComplete calls made by the last event
  progressed,    \* a second has ticked off since timeLeft was last set
  run            \* the countdown of the last counted Start, while only seconds
                 \* have passed since

vars == << mode, timeLeft, isActive, settings, tasks, activeTaskId, dailyStats,
           timerRefLive, intervals, storage, today, nextId, sounds, lastOp,
           completed, progressed, run >>

\* ------------------------------------------------------------- helpers
HasTask(ts, id) == \E i \in 1 .. Len(ts) : ts[i].id = id

\* tasks.find(t => t.id === id), when it is found
TaskOf(ts, id) == ts[CHOOSE i \in 1 .. Len(ts) : ts[i].id = id]

\* a || b on numbers: b when a is falsy (0, NaN, null)
OrElse(a, b) == IF a = 0 \/ a = NaN \/ a = Null THEN b ELSE a

MapSeq(s, F(_)) == [i \in 1 .. Len(s) |-> F(s[i])]

\* Array.prototype.filter, keeping the order
FilterSeq(s, Keep(_)) == SelectSeq(s, Keep)

DEFAULT_SETTINGS(day) ==
  [ pomodoroTime   |-> DefaultPomodoroTime,
    breakTime      |-> DefaultBreakTime,
    dailyGoalPomos |-> DefaultDailyGoalPomos,
    streak         |-> 0,
    lastActiveDate |-> day ]

NewDay(day) ==
  [ date |-> day, pomodorosCompleted |-> 0, minutesFocused |-> 0,
    breaksTaken |-> 0, tasksCompleted |-> 0 ]

Absent == << >>          \* localStorage.getItem(key) === null

\* useStickyState's initialiser: the stored value, or the default
Loaded(item, default) == IF item = Absent THEN default ELSE item[1]

\* JSON.stringify of a number, read back by JSON.parse
stringifyNumber(n) == IF n = NaN THEN Null ELSE n

stringifyTask(t) ==
  [ t EXCEPT !.estimatedPomos = stringifyNumber(@),
             !.durationPerPomo = stringifyNumber(@) ]

\* The three useStickyState effects: localStorage.setItem(key, JSON.stringify(value)).
\* unparsable holds the keys whose text JSON.parse rejects: none of those the
\* application has written.
Persist(s) ==
  [ s EXCEPT !.storage = [ settings   |-> << s.settings >>,
                           tasks      |-> << MapSeq(s.tasks, stringifyTask) >>,
                           stats      |-> << s.dailyStats >>,
                           unparsable |-> {} ] ]

\* ------------------------------------------------- handlers of App.tsx
\* Each takes the state c of the render whose closure it runs in and gives
\* the state after its queued updates.

\* a reset that ignores the active task's duration
resetTimerToModeGlobal(c, targetMode) ==
  IF targetMode = POMODORO THEN c.settings.pomodoroTime * SecondsPerMinute
  ELSE c.settings.breakTime * SecondsPerMinute

\* the value resetTimerToMode passes to setTimeLeft
resetTimerToMode(c, targetMode) ==
  IF targetMode = POMODORO
  THEN IF HasTask(c.tasks, c.activeTaskId)
       THEN TaskOf(c.tasks, c.activeTaskId).durationPerPomo * SecondsPerMinute
       ELSE c.settings.pomodoroTime * SecondsPerMinute
  ELSE c.settings.breakTime * SecondsPerMinute

\* a switch that leaves a running countdown running
switchModeKeepsRunning(c, newMode) ==
  [ c EXCEPT !.mode = newMode,
             !.timeLeft = resetTimerToMode(c, newMode) ]

\* a switch that resets to the duration of the mode being left
switchModeStale(c, newMode) ==
  [ c EXCEPT !.mode = newMode,
             !.isActive = FALSE,
             !.timeLeft = resetTimerToMode(c, c.mode) ]

switchMode(c, newMode) ==
  [ c EXCEPT !.mode = newMode,
             !.isActive = FALSE,
             !.timeLeft = resetTimerToMode(c, newMode) ]

\* activeTaskId ? tasks.find(...)?.durationPerPomo || settings.pomodoroTime
\*              : settings.pomodoroTime        (undefined is falsy, like 0)
FocusMinutes(c) ==
  IF c.activeTaskId # NoTask
  THEN OrElse(IF HasTask(c.tasks, c.activeTaskId)
              THEN TaskOf(c.tasks, c.activeTaskId).durationPerPomo ELSE 0,
              c.settings.pomodoroTime)
  ELSE c.settings.pomodoroTime

CreditFocus(c, day, stat) ==
  IF stat.date = day
  THEN [ stat EXCEPT !.pomodorosCompleted = @ + 1,
                     !.minutesFocused = @ + FocusMinutes(c) ]
  ELSE stat

CreditBreak(day, stat) ==
  IF stat.date = day THEN [ stat EXCEPT !.breaksTaken = @ + 1 ] ELSE stat

\* a completion that credits every task, not only the active one
CreditEveryTask(c, t) == [ t EXCEPT !.completedPomos = @ + 1 ]

CreditTask(c, t) ==
  IF t.id = c.activeTaskId THEN [ t EXCEPT !.completedPomos = @ + 1 ] ELSE t

\* a completion that counts a break into the streak as well
handleTimerCompleteCountsBreaks(c, day) ==
  LET a == [ c EXCEPT !.isActive = FALSE,
                      !.sounds = @ \cup {"alarm"},
                      !.completed = @ + 1,
                      !.settings = [ @ EXCEPT !.streak = @ + 1 ] ]
  IN IF c.mode = POMODORO
     THEN [ switchMode(c, BREAK) EXCEPT
              !.tasks = IF c.activeTaskId # NoTask
                        THEN MapSeq(@, LAMBDA t : CreditTask(c, t)) ELSE @,
              !.dailyStats = MapSeq(@, LAMBDA d : CreditFocus(c, day, d)),
              !.settings = a.settings,
              !.sounds = a.sounds, !.completed = a.completed ]
     ELSE [ switchMode(c, POMODORO) EXCEPT
              !.dailyStats = MapSeq(@, LAMBDA d : CreditBreak(day, d)),
              !.settings = a.settings,
              !.sounds = a.sounds, !.completed = a.completed ]

handleTimerComplete(c, day) ==
  LET a == [ c EXCEPT !.isActive = FALSE,
                      !.sounds = @ \cup {"alarm"},
                      !.completed = @ + 1 ]
  IN IF c.mode = POMODORO
     THEN LET b == [ a EXCEPT
                 !.tasks = IF c.activeTaskId # NoTask
                           THEN MapSeq(@, LAMBDA t : CreditTask(c, t)) ELSE @,
                 !.dailyStats = MapSeq(@, LAMBDA d : CreditFocus(c, day, d)),
                 !.settings = [ @ EXCEPT !.streak = @ + 1 ] ]
          IN [ switchMode(c, BREAK) EXCEPT !.tasks = b.tasks,
                   !.dailyStats = b.dailyStats, !.settings = b.settings,
                   !.sounds = b.sounds, !.completed = b.completed ]
     ELSE LET b == [ a EXCEPT
                 !.dailyStats = MapSeq(@, LAMBDA d : CreditBreak(day, d)) ]
          IN [ switchMode(c, POMODORO) EXCEPT !.dailyStats = b.dailyStats,
                   !.sounds = b.sounds, !.completed = b.completed ]

\* ------------------------------------------------------------- effects
\* a clearInterval that stops nothing
clearNothing(s) == s

\* clearInterval(timerRef.current), a no-op on a cleared handle
clearTimerRef(s) ==
  IF s.timerRefLive
  THEN [ s EXCEPT !.timerRefLive = FALSE, !.intervals = @ - 1 ]
  ELSE s

\* timerRef.current = setInterval(...)
startInterval(s) == [ s EXCEPT !.timerRefLive = TRUE, !.intervals = @ + 1 ]

\* the body of the timer effect, deps [isActive, timeLeft]
TimerEffectBody(s, day) ==
  IF s.isActive /\ s.timeLeft > 0 THEN startInterval(s)
  ELSE IF s.timeLeft = 0 /\ s.isActive THEN handleTimerComplete(s, day)
  ELSE clearTimerRef(s)

\* a timer effect that returns no cleanup
TimerEffectNoCleanup(s, day) == TimerEffectBody(s, day)

\* a re-run of the timer effect: the cleanup the previous run returned, then
\* the body
TimerEffect(s, day) == TimerEffectBody(clearTimerRef(s), day)

\* the effect with deps [settings.pomodoroTime, settings.breakTime]; r is the
\* render it closes over
SettingsEffect(s, r) ==
  IF ~ r.isActive THEN [ s EXCEPT !.timeLeft = resetTimerToMode(r, r.mode) ] ELSE s

\* the state React renders from
Rendered(s) == << s.mode, s.timeLeft, s.isActive, s.settings, s.tasks,
                  s.activeTaskId, s.dailyStats >>

\* Re-render with the state new after the render old, run the effects whose
\* dependencies changed, and render again while they queue updates.
RECURSIVE Commit(_, _, _)
Commit(old, new, day) ==
  LET p == Persist(new)
      t == IF << old.isActive, old.timeLeft >> # << new.isActive, new.timeLeft >>
           THEN TimerEffect(p, day) ELSE p
      e == IF << old.settings.pomodoroTime, old.settings.breakTime >>
              # << new.settings.pomodoroTime, new.settings.breakTime >>
           THEN SettingsEffect(t, new) ELSE t
  IN IF Rendered(e) = Rendered(new) THEN e ELSE Commit(new, e, day)

\* a startup that appends a fresh record without looking for today's
StartupEffectAlwaysAppends(s, r, day) ==
  [ s EXCEPT
      !.settings = IF day # r.settings.lastActiveDate
                   THEN [ @ EXCEPT !.lastActiveDate = day ] ELSE @,
      !.dailyStats = Append(@, NewDay(day)) ]

\* a startup that ends the streak when the day has changed
StartupEffectEndsStreak(s, r, day) ==
  [ s EXCEPT
      !.settings = IF day # r.settings.lastActiveDate
                   THEN [ @ EXCEPT !.lastActiveDate = day, !.streak = 0 ] ELSE @,
      !.dailyStats = IF \E i \in 1 .. Len(@) : @[i].date = day
                     THEN @ ELSE Append(@, NewDay(day)) ]

\* the effect with deps []: day rollover and today's statistics record
StartupEffect(s, r, day) ==
  [ s EXCEPT
      !.settings = IF day # r.settings.lastActiveDate
                   THEN [ @ EXCEPT !.lastActiveDate = day ] ELSE @,
      !.dailyStats = IF \E i \in 1 .. Len(@) : @[i].date = day
                     THEN @ ELSE Append(@, NewDay(day)) ]

\* a first render that comes back with a stored task selected
MountSelectsStored(store, day) ==
  LET r == [ mode         |-> POMODORO,
             timeLeft     |-> DefaultPomodoroTime * SecondsPerMinute,
             isActive     |-> FALSE,
             settings     |-> Loaded(store.settings, DEFAULT_SETTINGS(day)),
             tasks        |-> Loaded(store.tasks, << >>),
             activeTaskId |-> IF Loaded(store.tasks, << >>) = << >> THEN NoTask
                              ELSE Loaded(store.tasks, << >>)[1].id,
             dailyStats   |-> Loaded(store.stats, << >>),
             timerRefLive |-> FALSE,
             intervals    |-> 0,
             storage      |-> store,
             sounds       |-> {},
             completed    |-> 0 ]
      e == StartupEffect(SettingsEffect(TimerEffectBody(Persist(r), day), r), r, day)
  IN IF Rendered(e) = Rendered(r) THEN e ELSE Commit(r, e, day)

\* First render of App from the stored records, and its mount effects.
\* loadDay is the day the module was loaded on (DEFAULT_SETTINGS).
Mount(store, day) ==
  LET r == [ mode         |-> POMODORO,
             timeLeft     |-> DefaultPomodoroTime * SecondsPerMinute,
             isActive     |-> FALSE,
             settings     |-> Loaded(store.settings, DEFAULT_SETTINGS(day)),
             tasks        |-> Loaded(store.tasks, << >>),
             activeTaskId |-> NoTask,
             dailyStats   |-> Loaded(store.stats, << >>),
             timerRefLive |-> FALSE,
             intervals    |-> 0,
             storage      |-> store,
             sounds       |-> {},
             completed    |-> 0 ]
      e == StartupEffect(SettingsEffect(TimerEffectBody(Persist(r), day), r), r, day)
  IN IF Rendered(e) = Rendered(r) THEN e ELSE Commit(r, e, day)

\* --------------------------------------------------------- the machine
\* the state the next event's handler closes over
Now ==
  [ mode |-> mode, timeLeft |-> timeLeft, isActive |-> isActive,
    settings |-> settings, tasks |-> tasks, activeTaskId |-> activeTaskId,
    dailyStats |-> dailyStats, timerRefLive |-> timerRefLive,
    intervals |-> intervals, storage |-> storage,
    sounds |-> {}, completed |-> 0 ]

Become(e) ==
  /\ mode' = e.mode
  /\ timeLeft' = e.timeLeft
  /\ isActive' = e.isActive
  /\ settings' = e.settings
  /\ tasks' = e.tasks
  /\ activeTaskId' = e.activeTaskId
  /\ dailyStats' = e.dailyStats
  /\ timerRefLive' = e.timerRefLive
  /\ intervals' = e.intervals
  /\ storage' = e.storage
  /\ sounds' = e.sounds
  /\ completed' = e.completed

\* statistic credits made so far: completed sessions and breaks taken
Credits(stats) ==
  LET RECURSIVE S(_)
      S(i) == IF i = 0 THEN 0
              ELSE stats[i].pomodorosCompleted + stats[i].breaksTaken + S(i - 1)
  IN S(Len(stats))

NotCounting == [ d |-> 0, ticks |-> 0, done |-> 0, mode |-> POMODORO, credits |-> 0 ]

\* An event: the handler's updates h, the re-render and its effects.
\* setsTime: the handler called setTimeLeft with a full duration.
\* counted: the event is a Start whose countdown the model counts.
EventOf(op, h, setsTime, counted) ==
  LET e == Commit(Now, h, today)
  IN /\ Become(e)
     /\ lastOp' = op
     /\ progressed' = IF setsTime \/ e.completed > 0 THEN FALSE
                      ELSE (op = "Tick" \/ progressed)
     /\ run' = IF counted
               THEN [ d |-> timeLeft, ticks |-> 0, done |-> e.completed,
                      mode |-> mode, credits |-> Credits(dailyStats) ]
               ELSE IF op = "Tick" /\ run.d > 0
                    THEN [ run EXCEPT !.ticks = @ + 1, !.done = @ + e.completed ]
                    ELSE NotCounting
     /\ UNCHANGED << today, nextId >>

Event(op, h, setsTime) == EventOf(op, h, setsTime, FALSE)

\* the model starts no countdown once MaxCompletions sessions have left a
\* trace in the streak or in the breaks taken
BreaksTaken ==
  LET RECURSIVE S(_)
      S(i) == IF i = 0 THEN 0 ELSE dailyStats[i].breaksTaken + S(i - 1)
  IN S(Len(dailyStats))

MayComplete == settings.streak + BreaksTaken < MaxCompletions

\* App is rendered: the last load of the page did not fail
Mounted == lastOp # "LoadFailed"

\* The moments of a running countdown at which the model lets the user act
\* (and midnight fall): before its first tick, and in the first and the last
\* ActWindow seconds of a full countdown. In between, only seconds pass.
AtHand ==
  /\ Mounted
  /\ \/ ~ isActive
     \/ lastOp = "Start"
     \/ timeLeft <= ActWindow
     \/ /\ timeLeft <= resetTimerToMode(Now, mode)
        /\ timeLeft >= resetTimerToMode(Now, mode) - ActWindow

Init ==
  LET e == Mount([ settings |-> Absent, tasks |-> Absent, stats |-> Absent,
                   unparsable |-> {} ], 1)
  IN /\ mode = e.mode /\ timeLeft = e.timeLeft /\ isActive = e.isActive
     /\ settings = e.settings /\ tasks = e.tasks
     /\ activeTaskId = e.activeTaskId /\ dailyStats = e.dailyStats
     /\ timerRefLive = e.timerRefLive /\ intervals = e.intervals
     /\ storage = e.storage /\ sounds = e.sounds /\ completed = e.completed
     /\ today = 1 /\ nextId = 0 /\ lastOp = "Mount"
     /\ progressed = FALSE /\ run = NotCounting

\* toggleTimer while paused
Start ==
  /\ Mounted /\ ~ isActive
  /\ MayComplete
  /\ Event("Start", [ Now EXCEPT !.isActive = TRUE ], FALSE)

\* the same click, its countdown counted in run
StartCounted ==
  /\ Mounted /\ ~ isActive
  /\ MayComplete
  /\ EventOf("Start", [ Now EXCEPT !.isActive = TRUE ], FALSE, TRUE)

\* toggleTimer while running
Pause ==
  /\ isActive /\ AtHand
  /\ Event("Pause", [ Now EXCEPT !.isActive = FALSE ], FALSE)

\* One second passes: every live interval calls setTimeLeft(prev => prev - 1).
Tick ==
  /\ intervals > 0
  /\ Event("Tick", [ Now EXCEPT !.timeLeft = @ - intervals ], FALSE)

\* a Skip that only moves on to the other mode
SkipWithoutCredit ==
  /\ isActive /\ AtHand
  /\ MayComplete
  /\ Event("Skip", switchMode(Now, IF mode = POMODORO THEN BREAK ELSE POMODORO), TRUE)

\* the Skip button, rendered while isActive
Skip ==
  /\ isActive /\ AtHand
  /\ MayComplete
  /\ Event("Skip", handleTimerComplete(Now, today), TRUE)

\* a handler or effect of render c run after the updates that gave q were
\* queued and before the next render: it reads c's values in its closure and
\* its functional updates apply to what is queued
QueuedBehind(c, q) ==
  [ q EXCEPT !.mode = c.mode, !.timeLeft = c.timeLeft, !.isActive = c.isActive,
             !.activeTaskId = c.activeTaskId ]

\* The Skip button is clicked after the tick that takes the countdown to zero
\* was rendered and before the timer effect of that render has run (effects
\* of a render caused by a timer callback run after the paint). The click
\* handler and the pending effect are both of that render r; React runs the
\* pending effect before the click is handled or before it renders the
\* handler's updates.
SkipAtZero ==
  /\ isActive /\ intervals = 1 /\ timeLeft = 1
  /\ MayComplete
  /\ LET r == [ Now EXCEPT !.timeLeft = 0 ]
     IN \E effectFirst \in BOOLEAN :
          Event("SkipAtZero",
                IF effectFirst
                THEN handleTimerComplete(QueuedBehind(r, TimerEffect(r, today)), today)
                ELSE TimerEffect(QueuedBehind(r, handleTimerComplete(r, today)), today),
                TRUE)

\* currentTotal of resetTimer
currentTotal(c) ==
  IF c.mode = POMODORO THEN FocusMinutes(c) * SecondsPerMinute
  ELSE c.settings.breakTime * SecondsPerMinute

resetTimer(c) ==
  [ c EXCEPT !.sounds = IF c.isActive \/ c.timeLeft # currentTotal(c)
                        THEN @ \cup {"fail"} ELSE @,
             !.isActive = FALSE,
             !.timeLeft = resetTimerToMode(c, c.mode) ]

Reset == AtHand /\ Event("Reset", resetTimer(Now), TRUE)

SwitchMode ==
  /\ AtHand
  /\ \E m \in TimerMode : Event("SwitchMode", switchMode(Now, m), TRUE)

handleBreakChange(c, newMinutes) ==
  [ c EXCEPT !.settings = [ @ EXCEPT !.breakTime = newMinutes ],
             !.timeLeft = IF c.mode = BREAK /\ ~ c.isActive
                          THEN newMinutes * SecondsPerMinute ELSE @ ]

\* the break-duration input, rendered in Break mode while paused; what is
\* typed reaches the handler as Math.max(1, parseInt(value) || 0)
BreakChange ==
  /\ mode = BREAK /\ ~ isActive
  /\ \E typed \in 0 .. MaxDuration :
       Event("BreakChange",
             handleBreakChange(Now, IF typed > 1 THEN typed ELSE 1), TRUE)

\* an add that always selects the new task
addTaskSelectsNew(c, id, est, dur, date) ==
  [ c EXCEPT !.tasks = Append(@, [ id |-> id, isCompleted |-> FALSE,
                                   estimatedPomos |-> est, completedPomos |-> 0,
                                   durationPerPomo |-> dur, date |-> date ]),
             !.activeTaskId = id ]

addTask(c, id, est, dur, date) ==
  [ c EXCEPT !.tasks = Append(@, [ id |-> id, isCompleted |-> FALSE,
                                   estimatedPomos |-> est, completedPomos |-> 0,
                                   durationPerPomo |-> dur, date |-> date ]),
             !.activeTaskId = IF @ = NoTask THEN id ELSE @ ]

\* the add form: crypto.randomUUID() is an identifier never handed out before
AddTask ==
  /\ AtHand
  /\ nextId < MaxAdds
  /\ \E dur \in Durations, date \in {today} :
       LET e == Commit(Now, addTask(Now, nextId + 1, 1, dur, date), today)
       IN /\ Become(e)
          /\ nextId' = nextId + 1
          /\ lastOp' = "AddTask"
          /\ run' = NotCounting
          /\ UNCHANGED << today, progressed >>

NotId(id, t) == t.id # id

\* a delete that leaves the deleted task selected
deleteTaskKeepsSelection(c, id) ==
  [ c EXCEPT !.tasks = FilterSeq(@, LAMBDA t : NotId(id, t)),
             !.timeLeft = IF c.activeTaskId = id /\ c.mode = POMODORO /\ ~ c.isActive
                          THEN c.settings.pomodoroTime * SecondsPerMinute ELSE @ ]

\* a delete that leaves remaining at the deleted task's duration
deleteTaskKeepsRemaining(c, id) ==
  [ c EXCEPT !.tasks = FilterSeq(@, LAMBDA t : NotId(id, t)),
             !.activeTaskId = IF @ = id THEN NoTask ELSE @ ]

deleteTask(c, id) ==
  [ c EXCEPT !.tasks = FilterSeq(@, LAMBDA t : NotId(id, t)),
             !.activeTaskId = IF @ = id THEN NoTask ELSE @,
             !.timeLeft = IF c.activeTaskId = id /\ c.mode = POMODORO /\ ~ c.isActive
                          THEN c.settings.pomodoroTime * SecondsPerMinute ELSE @ ]

DeleteTask ==
  /\ AtHand
  /\ \E i \in 1 .. Len(tasks) :
       Event("DeleteTask", deleteTask(Now, tasks[i].id),
             activeTaskId = tasks[i].id /\ mode = POMODORO /\ ~ isActive)

\* a select that leaves a running countdown running
selectTaskKeepsRunning(c, id) ==
  [ c EXCEPT !.activeTaskId = id,
             !.timeLeft = IF c.mode = POMODORO /\ HasTask(c.tasks, id)
                          THEN TaskOf(c.tasks, id).durationPerPomo * SecondsPerMinute
                          ELSE @ ]

selectTask(c, id) ==
  [ c EXCEPT !.activeTaskId = id,
             !.isActive = IF c.mode = POMODORO THEN FALSE ELSE @,
             !.timeLeft = IF c.mode = POMODORO /\ HasTask(c.tasks, id)
                          THEN TaskOf(c.tasks, id).durationPerPomo * SecondsPerMinute
                          ELSE @ ]

\* a click on a row of the to-do list, which shows the incomplete tasks
SelectTask ==
  /\ AtHand
  /\ \E i \in 1 .. Len(tasks) :
       /\ ~ tasks[i].isCompleted
       /\ Event("SelectTask", selectTask(Now, tasks[i].id), mode = POMODORO)

SetDuration(id, duration, t) ==
  IF t.id = id THEN [ t EXCEPT !.durationPerPomo = duration ] ELSE t

\* an edit that resets the countdown of the active task even while it runs
updateTaskDurationWhileRunning(c, id, duration) ==
  [ c EXCEPT !.tasks = MapSeq(@, LAMBDA t : SetDuration(id, duration, t)),
             !.timeLeft = IF c.activeTaskId = id /\ c.mode = POMODORO
                          THEN duration * SecondsPerMinute ELSE @ ]

updateTaskDuration(c, id, duration) ==
  [ c EXCEPT !.tasks = MapSeq(@, LAMBDA t : SetDuration(id, duration, t)),
             !.timeLeft = IF c.activeTaskId = id /\ ~ c.isActive /\ c.mode = POMODORO
                          THEN duration * SecondsPerMinute ELSE @ ]

\* the quick-edit minutes input of an incomplete task
UpdateTaskDuration ==
  /\ AtHand
  /\ \E i \in 1 .. Len(tasks), dur \in Durations :
       /\ ~ tasks[i].isCompleted
       /\ dur # tasks[i].durationPerPomo
       /\ Event("UpdateTaskDuration", updateTaskDuration(Now, tasks[i].id, dur),
                activeTaskId = tasks[i].id /\ ~ isActive /\ mode = POMODORO)

SetCompleted(id, done, t) ==
  IF t.id = id THEN [ t EXCEPT !.isCompleted = done ] ELSE t

\* a toggle counted in the record of every day
CreditToggleEveryDay(day, done, stat) ==
  [ stat EXCEPT !.tasksCompleted =
      IF done THEN @ + 1 ELSE IF @ - 1 > 0 THEN @ - 1 ELSE 0 ]

\* Math.max(0, day.tasksCompleted + (newCompletionState ? 1 : -1)), today only
CreditToggle(day, done, stat) ==
  IF stat.date = day
  THEN [ stat EXCEPT !.tasksCompleted =
           IF done THEN @ + 1 ELSE IF @ - 1 > 0 THEN @ - 1 ELSE 0 ]
  ELSE stat

toggleTask(c, id, day) ==
  IF ~ HasTask(c.tasks, id) THEN c
  ELSE LET newCompletionState == ~ TaskOf(c.tasks, id).isCompleted
       IN [ c EXCEPT
              !.tasks = MapSeq(@, LAMBDA t : SetCompleted(id, newCompletionState, t)),
              !.sounds = IF newCompletionState THEN @ \cup {"success"} ELSE @,
              !.dailyStats = MapSeq(@, LAMBDA d :
                               CreditToggle(day, newCompletionState, d)) ]

\* the check button of a row of the to-do list, which shows the incomplete
\* tasks; the history view of the completed tasks has no such button
ToggleTask ==
  /\ AtHand
  /\ \E i \in 1 .. Len(tasks) :
       /\ ~ tasks[i].isCompleted
       /\ Event("ToggleTask", toggleTask(Now, tasks[i].id, today), FALSE)

\* total of progressPercentage
progressTotal(c) ==
  IF c.mode = POMODORO
  THEN (IF HasTask(c.tasks, c.activeTaskId)
        THEN TaskOf(c.tasks, c.activeTaskId).durationPerPomo
        ELSE c.settings.pomodoroTime) * SecondsPerMinute
  ELSE c.settings.breakTime * SecondsPerMinute

\* progressPercentage, as the fraction << numerator, denominator >>
progressPercentage(c) ==
  IF progressTotal(c) = 0 THEN << 0, 1 >>
  ELSE << (progressTotal(c) - c.timeLeft) * 100, progressTotal(c) >>

\* The page is reloaded: the intervals die with it and App mounts again from
\* localStorage.
Restart ==
  /\ AtHand
  /\ Become(Mount(storage, today))
  /\ lastOp' = "Restart"
  /\ progressed' = FALSE
  /\ run' = NotCounting
  /\ UNCHANGED << today, nextId >>

\* Midnight passes on the clock source.
NextDay ==
  /\ AtHand
  /\ today < MaxDay
  /\ today' = today + 1
  /\ lastOp' = "NextDay"
  /\ sounds' = {} /\ completed' = 0 /\ run' = NotCounting
  /\ UNCHANGED << mode, timeLeft, isActive, settings, tasks, activeTaskId,
                  dailyStats, timerRefLive, intervals, storage, nextId,
                  progressed >>

\* the timer engine and the task handlers that reach into it, within one
\* run of the application
Engine ==
  \/ Pause \/ Tick \/ Skip \/ Reset \/ SwitchMode \/ BreakChange
  \/ AddTask \/ DeleteTask \/ SelectTask \/ UpdateTaskDuration
  \/ NextDay

NextTimer == Start \/ Engine

SpecTimer == Init /\ [][NextTimer]_vars

\* the same machine with every countdown counted from its Start
NextRun == StartCounted \/ Engine

SpecRun == Init /\ [][NextRun]_vars

\* the days and the records kept over them: sessions run, skipped and reset, tasks
\* added, selected, completed and deleted, midnights and reloads of the page
NextDays ==
  \/ Start \/ Tick \/ Skip \/ Reset \/ SwitchMode
  \/ AddTask \/ DeleteTask \/ SelectTask \/ ToggleTask
  \/ NextDay \/ Restart

SpecDays == Init /\ [][NextDays]_vars

\* ------------------------------------------------ derived quantities
\* Array.prototype.reduce((acc, t) => acc + F(t), 0)
SumSeq(s, F(_)) ==
  LET RECURSIVE Acc(_)
      Acc(i) == IF i = 0 THEN 0 ELSE Acc(i - 1) + F(s[i])
  IN Acc(Len(s))

\* Math.max(0, n)
Max0(n) == IF n > 0 THEN n ELSE 0

\* a remaining workload that counts the sessions done beyond the estimate
remainingPomosTodayUnclamped(ts, day) ==
  SumSeq(FilterSeq(ts, LAMBDA t : ~ t.isCompleted /\ t.date = day),
         LAMBDA t : t.estimatedPomos - t.completedPomos)

\* remainingPomosToday of TaskList
remainingPomosToday(ts, day) ==
  SumSeq(FilterSeq(ts, LAMBDA t : ~ t.isCompleted /\ t.date = day),
         LAMBDA t : Max0(t.estimatedPomos - t.completedPomos))

\* completed minutes counted from the sessions done
completedMinutesTodayByDone(ts, day) ==
  SumSeq(FilterSeq(ts, LAMBDA t : t.date = day /\ t.isCompleted),
         LAMBDA t : t.completedPomos * t.durationPerPomo)

\* completedMinutesToday of App
completedMinutesToday(ts, day) ==
  SumSeq(FilterSeq(ts, LAMBDA t : t.date = day /\ t.isCompleted),
         LAMBDA t : t.estimatedPomos * t.durationPerPomo)

SetEstimate(id, newEstimate, t) ==
  IF t.id = id THEN [ t EXCEPT !.estimatedPomos = newEstimate ] ELSE t

updatePomos(c, id, newEstimate) ==
  [ c EXCEPT !.tasks = MapSeq(@, LAMBDA t : SetEstimate(id, newEstimate, t)) ]

\* the quick-edit pomodoros input of an incomplete task
UpdatePomos ==
  /\ AtHand
  /\ \E i \in 1 .. Len(tasks), est \in 1 .. MaxEstimate :
       /\ ~ tasks[i].isCompleted
       /\ est # tasks[i].estimatedPomos
       /\ Event("UpdatePomos", updatePomos(Now, tasks[i].id, est), FALSE)

\* The task lists an earlier run of the application can have left in
\* localStorage: the i-th task created, with any estimate, sessions done,
\* duration, date and completion.
StoredTask(i) ==
  [ id : {i}, isCompleted : BOOLEAN, estimatedPomos : 1 .. MaxEstimate,
    completedPomos : 0 .. MaxCompletions, durationPerPomo : Durations,
    date : 1 .. MaxDay ]

RECURSIVE StoredTasks(_)
StoredTasks(n) ==
  IF n = 0 THEN { << >> }
  ELSE { Append(ts, t) : ts \in StoredTasks(n - 1), t \in StoredTask(n) }

\* what that run left beside them: the sessions and completed tasks counted
\* on day 1 and in the streak
StoredWith(ts) ==
  [ settings |-> << [ DEFAULT_SETTINGS(1) EXCEPT
                        !.streak = SumSeq(ts, LAMBDA t : t.completedPomos) ] >>,
    tasks    |-> << ts >>,
    stats    |-> << << [ NewDay(1) EXCEPT
                           !.pomodorosCompleted = SumSeq(ts, LAMBDA t : t.completedPomos),
                           !.minutesFocused =
                              SumSeq(ts, LAMBDA t : t.completedPomos * t.durationPerPomo),
                           !.tasksCompleted =
                              SumSeq(ts, LAMBDA t : IF t.isCompleted THEN 1 ELSE 0) ] >> >>,
    unparsable |-> {} ]

\* the page is opened on day 1 over such a store
InitStored ==
  \E n \in 0 .. MaxAdds : \E ts \in StoredTasks(n) :
    LET e == Mount(StoredWith(ts), 1)
    IN /\ mode = e.mode /\ timeLeft = e.timeLeft /\ isActive = e.isActive
       /\ settings = e.settings /\ tasks = e.tasks
       /\ activeTaskId = e.activeTaskId /\ dailyStats = e.dailyStats
       /\ timerRefLive = e.timerRefLive /\ intervals = e.intervals
       /\ storage = e.storage /\ sounds = e.sounds /\ completed = e.completed
       /\ today = 1 /\ nextId = n /\ lastOp = "Mount"
       /\ progressed = FALSE /\ run = NotCounting

\* the task list edited and the days passing under the two dashboards
NextDerived == ToggleTask \/ UpdatePomos \/ DeleteTask \/ NextDay

SpecDerived == InitStored /\ [][NextDerived]_vars

\* ------------------------------------------ typed input and the store
\* what the quick-edit minutes field can hold: nothing, or the digits of a number
\* from below its min="1" upwards
FieldNumbers == -1 .. MaxDuration
FieldTexts == {""} \cup { ToString(n) : n \in FieldNumbers }

\* parseInt(e.target.value)
parseInt(text) ==
  IF text = "" THEN NaN ELSE CHOOSE n \in FieldNumbers : ToString(n) = text

\* the add form submitted with the pomodoros field as typed (its state is
\* parseInt of the text; the fields are not required, so an emptied one
\* submits) and a number of minutes
AddTaskTyped ==
  /\ AtHand
  /\ nextId < MaxAdds
  /\ \E estText \in {"", "1"}, dur \in Durations :
       LET e == Commit(Now, addTask(Now, nextId + 1, parseInt(estText), dur, today),
                       today)
       IN /\ Become(e)
          /\ nextId' = nextId + 1
          /\ lastOp' = "AddTask"
          /\ run' = NotCounting
          /\ UNCHANGED << today, progressed >>

\* the quick-edit minutes input as typed: parseInt(e.target.value) || 25
EditDurationTyped ==
  /\ AtHand
  /\ \E i \in 1 .. Len(tasks), text \in FieldTexts :
       LET duration == OrElse(parseInt(text), DefaultTaskDuration)
       IN /\ ~ tasks[i].isCompleted
          /\ duration # tasks[i].durationPerPomo
          /\ Event("UpdateTaskDuration",
                   updateTaskDuration(Now, tasks[i].id, duration),
                   activeTaskId = tasks[i].id /\ ~ isActive /\ mode = POMODORO)

\* the quick-edit pomodoros input as typed: parseInt(e.target.value)
EditPomosTyped ==
  /\ AtHand
  /\ \E i \in 1 .. Len(tasks), text \in {"", "1"} :
       /\ ~ tasks[i].isCompleted
       /\ parseInt(text) # tasks[i].estimatedPomos
       /\ Event("UpdatePomos", updatePomos(Now, tasks[i].id, parseInt(text)), FALSE)

StoreKeys == { "settings", "tasks", "stats" }

\* JSON.parse throws in a useState initialiser: App does not render, nothing
\* is mounted and no effect runs
Unmounted(store) ==
  [ mode         |-> POMODORO,
    timeLeft     |-> 0,
    isActive     |-> FALSE,
    settings     |-> DEFAULT_SETTINGS(0),
    tasks        |-> << >>,
    activeTaskId |-> NoTask,
    dailyStats   |-> << >>,
    timerRefLive |-> FALSE,
    intervals    |-> 0,
    storage      |-> store,
    sounds       |-> {},
    completed    |-> 0 ]

\* the page loaded over a store
Load(store, day) ==
  IF store.unparsable # {} THEN Unmounted(store) ELSE Mount(store, day)

\* The page is reloaded after record k of the store was removed. The model
\* removes records before any session is counted in them.
LoseRecord(k) ==
  /\ AtHand
  /\ settings.streak + Credits(dailyStats) = 0
  /\ Become(Load([ storage EXCEPT ![k] = Absent ], today))
  /\ lastOp' = "LoadLost"
  /\ progressed' = FALSE
  /\ run' = NotCounting
  /\ UNCHANGED << today, nextId >>

LoadOverLostRecord == \E k \in StoreKeys : LoseRecord(k)

\* The page is reloaded after record k of the store was replaced by a text
\* that is no JSON.
BreakRecord(k) ==
  /\ AtHand
  /\ Become(Load([ storage EXCEPT !.unparsable = {k} ], today))
  /\ lastOp' = "LoadFailed"
  /\ progressed' = FALSE
  /\ run' = NotCounting
  /\ UNCHANGED << today, nextId >>

LoadOverBadRecord == \E k \in StoreKeys : BreakRecord(k)

\* the application over what is typed into its fields and what it finds in
\* the store
NextStore ==
  \/ Start \/ Tick
  \/ AddTaskTyped \/ EditDurationTyped \/ EditPomosTyped
  \/ Restart \/ LoadOverLostRecord \/ LoadOverBadRecord

SpecStore == Init /\ [][NextStore]_vars

\* the countdown with the clicks that land between a render and its effects
NextRace == Start \/ Pause \/ Tick \/ Skip \/ SkipAtZero \/ AddTask \/ SelectTask

SpecRace == Init /\ [][NextRace]_vars

\* the countdown, running or paused in either mode, and reloads of the page
NextReload ==
  \/ Start \/ Pause \/ Tick \/ Skip \/ SwitchMode
  \/ AddTask \/ SelectTask \/ Restart

SpecReload == Init /\ [][NextReload]_vars

\* the whole machine, reloads of the page included
Next == NextTimer \/ ToggleTask \/ Restart

Spec == Init /\ [][Next]_vars

\* ------------------------------------------------------------- claims
\* The vocabulary of the claims, on the state before a step.

\* the active Task, when one is active
ActiveTask == tasks[CHOOSE i \in 1 .. Len(tasks) : tasks[i].id = activeTaskId]

\* the focus duration in minutes: the active Task's override, else the setting
FocusDuration ==
  IF activeTaskId # NoTask THEN ActiveTask.durationPerPomo
  ELSE settings.pomodoroTime

\* the full duration of mode m, in seconds
FullDuration(m) ==
  IF m = POMODORO THEN FocusDuration * SecondsPerMinute
  ELSE settings.breakTime * SecondsPerMinute

\* a step in which a session of mode m completed, naturally or by Skip
Completes(m) == completed' = 1 /\ mode = m

\* the step changed today's record, and only it, from r to the record given
TodayBecomes(Changed(_)) ==
  /\ Len(dailyStats') = Len(dailyStats)
  /\ \E i \in 1 .. Len(dailyStats) :
       /\ dailyStats[i].date = today
       /\ dailyStats'[i] = Changed(dailyStats[i])
       /\ \A j \in 1 .. Len(dailyStats) : j # i => dailyStats'[j] = dailyStats[j]

\* C1: Starting an Idle timer with remaining d > 0 and letting d ticks elapse
\* with nothing else happening completes the session exactly once: before the
\* d-th tick the timer runs and nothing has completed; after it the timer is
\* stopped with no tick source left, the mode has flipped, and exactly one
\* statistic credit was made.
C1_CompletesExactlyOnce ==
  run.d > 0 =>
    /\ run.ticks <= run.d
    /\ run.ticks < run.d =>
         /\ isActive /\ run.done = 0
         /\ timeLeft = run.d - run.ticks
         /\ mode = run.mode
         /\ Credits(dailyStats) = run.credits
    /\ run.ticks = run.d =>
         /\ ~ isActive /\ intervals = 0 /\ run.done = 1
         /\ mode # run.mode
         /\ Credits(dailyStats) = run.credits + 1

\* C2: Every Focus completion adds exactly 1 to pomodorosCompleted and the full
\* focus duration in minutes to minutesFocused of today's Daily Statistic.
C2_FocusCreditsToday ==
  [][ Completes(POMODORO) =>
        TodayBecomes(LAMBDA r :
          [ r EXCEPT !.pomodorosCompleted = @ + 1,
                     !.minutesFocused = @ + FocusDuration ]) ]_vars

\* C3: A Focus completion with an active Task adds exactly 1 to that Task's
\* completedPomos and changes nothing else in the Task collection; with no
\* active Task it changes no Task.
C3_FocusCreditsActiveTask ==
  [][ Completes(POMODORO) =>
        IF activeTaskId = NoTask THEN tasks' = tasks
        ELSE /\ Len(tasks') = Len(tasks)
             /\ \E i \in 1 .. Len(tasks) : tasks[i].id = activeTaskId
             /\ \A i \in 1 .. Len(tasks) :
                  tasks'[i] = IF tasks[i].id = activeTaskId
                              THEN [ tasks[i] EXCEPT !.completedPomos = @ + 1 ]
                              ELSE tasks[i] ]_vars

C3_Witness ==
  /\ completed = 1 /\ mode = BREAK
  /\ Len(tasks) = 2 /\ activeTaskId = tasks[2].id
  /\ tasks[2].completedPomos = 1 /\ tasks[1].completedPomos = 0

\* C4: After every Focus completion the timer is in Break mode, not running,
\* with remaining = Settings.breakTime * 60, whatever the active Task's
\* duration.
C4_FocusCompletionStartsBreak ==
  [][ Completes(POMODORO) =>
        /\ mode' = BREAK
        /\ ~ isActive'
        /\ timeLeft' = settings'.breakTime * SecondsPerMinute ]_vars

C4_Witness ==
  /\ completed = 1 /\ mode = BREAK /\ ~ isActive
  /\ activeTaskId # NoTask
  /\ ActiveTask.durationPerPomo # settings.breakTime
  /\ settings.breakTime # DefaultBreakTime

\* C5: Every Break completion adds exactly 1 to breaksTaken of today's Daily
\* Statistic, changes no other counter, no Task and not the streak, and leaves
\* the timer in Focus mode, not running, at the full focus duration.
C5_BreakCompletion ==
  [][ Completes(BREAK) =>
        /\ TodayBecomes(LAMBDA r : [ r EXCEPT !.breaksTaken = @ + 1 ])
        /\ tasks' = tasks
        /\ settings' = settings
        /\ mode' = POMODORO
        /\ ~ isActive'
        /\ timeLeft' = FullDuration(POMODORO) ]_vars

\* C6: Reset emits the fail cue if and only if the timer was running or a
\* second had ticked off since remaining was last set to a full duration.
C6_ResetFailCue ==
  [][ lastOp' = "Reset" =>
        (("fail" \in sounds') <=> (isActive \/ progressed)) ]_vars

\* the state after the tick that takes the running countdown to zero
NaturalCompletion == Commit(Now, [ Now EXCEPT !.timeLeft = 0 ], today)

\* C7: Skip, at any remaining value, leaves the mode, remaining, running flag,
\* Tasks, Daily Statistics and Settings (streak included) that the natural
\* completion of the same countdown leaves.
C7_SkipIsNaturalCompletion ==
  [][ lastOp' = "Skip" =>
        << mode', timeLeft', isActive', tasks', dailyStats', settings' >>
          = << NaturalCompletion.mode, NaturalCompletion.timeLeft,
               NaturalCompletion.isActive, NaturalCompletion.tasks,
               NaturalCompletion.dailyStats, NaturalCompletion.settings >> ]_vars

C7_Witness ==
  /\ lastOp = "Skip" /\ completed = 1
  /\ mode = BREAK /\ activeTaskId # NoTask /\ settings.streak = 1

\* C8: At most one tick source is live at any moment, and a second that passes
\* while the timer runs takes exactly 1 off remaining, completing the session
\* when that reaches zero.
C8_OneTickSource ==
  /\ intervals <= 1
  /\ [][ /\ intervals' <= 1
         /\ lastOp' = "Tick" =>
              IF timeLeft = 1 THEN completed' = 1
              ELSE completed' = 0 /\ timeLeft' = timeLeft - 1 ]_vars

C8_Witness ==
  /\ lastOp = "Tick" /\ isActive /\ intervals = 1
  /\ timeLeft = FullDuration(mode) - 1

\* C9: Pause stops the timer and keeps the mode and remaining (and everything
\* else) as they were; while the timer is idle no second that passes changes
\* remaining, which only an explicit operation changes.
C9_PauseHolds ==
  [][ /\ lastOp' = "Pause" =>
           /\ ~ isActive'
           /\ << mode', timeLeft', tasks', activeTaskId', dailyStats', settings' >>
                = << mode, timeLeft, tasks, activeTaskId, dailyStats, settings >>
      /\ ~ isActive => intervals = 0
      /\ (~ isActive /\ timeLeft' # timeLeft) =>
           lastOp' \in { "Start", "Reset", "SwitchMode", "BreakChange",
                         "DeleteTask", "SelectTask", "UpdateTaskDuration",
                         "Restart" } ]_vars

C9_Witness ==
  /\ lastOp = "Pause" /\ ~ isActive
  /\ timeLeft > 0 /\ timeLeft < FullDuration(mode)

\* C10: Reset leaves the timer not running with remaining = the full duration
\* of the current mode, and changes neither the mode, the Tasks, the Daily
\* Statistics nor the Settings.
C10_ResetToFull ==
  [][ lastOp' = "Reset" =>
        /\ ~ isActive'
        /\ timeLeft' = FullDuration(mode)
        /\ << mode', tasks', activeTaskId', dailyStats', settings' >>
             = << mode, tasks, activeTaskId, dailyStats, settings >> ]_vars

C10_Witness ==
  /\ lastOp = "Reset" /\ "fail" \in sounds
  /\ mode = POMODORO /\ activeTaskId # NoTask
  /\ timeLeft = ActiveTask.durationPerPomo * SecondsPerMinute

\* the step is a click on the switcher button of mode m
SwitchesTo(m) == Event("SwitchMode", switchMode(Now, m), TRUE)

\* C11: Switch Mode to m, from any state, leaves the timer in mode m, not
\* running, with remaining = the full duration of m, and records nothing: the
\* Daily Statistics, the Tasks, the active Task and the Settings (streak
\* included) are unchanged.
C11_SwitchModeResets ==
  [][ \A m \in TimerMode :
        (lastOp' = "SwitchMode" /\ SwitchesTo(m)) =>
          /\ mode' = m
          /\ ~ isActive'
          /\ timeLeft' = FullDuration(m)
          /\ << dailyStats', tasks', activeTaskId', settings' >>
               = << dailyStats, tasks, activeTaskId, settings >> ]_vars

C11_Witness ==
  /\ lastOp = "SwitchMode" /\ mode = POMODORO /\ ~ isActive
  /\ activeTaskId # NoTask
  /\ settings.streak = 1
  /\ timeLeft = ActiveTask.durationPerPomo * SecondsPerMinute
  /\ timeLeft # settings.breakTime * SecondsPerMinute

\* the step completed a task / made a completed task incomplete again
ToggledOn ==
  \E k \in 1 .. Len(tasks) :
    Len(tasks') = Len(tasks) /\ ~ tasks[k].isCompleted /\ tasks'[k].isCompleted

\* C12: Toggling a Task to completed adds exactly 1 to today's tasksCompleted,
\* toggling it back takes 1 off floored at 0, and tasksCompleted of every
\* record is >= 0 in every reachable state.
C12_ToggleCountsToday ==
  /\ \A i \in 1 .. Len(dailyStats) : dailyStats[i].tasksCompleted >= 0
  /\ [][ lastOp' = "ToggleTask" =>
           TodayBecomes(LAMBDA r :
             [ r EXCEPT !.tasksCompleted =
                 IF ToggledOn THEN @ + 1
                 ELSE IF @ > 0 THEN @ - 1 ELSE 0 ]) ]_vars

\* the records of day d
RecordsOf(d) == { i \in 1 .. Len(dailyStats) : dailyStats[i].date = d }

\* C13: In every reachable state after startup exactly one Daily Statistic
\* record exists for the current calendar day, also after the day changed
\* while the application stayed open.
C13_OneRecordForToday == Cardinality(RecordsOf(today)) = 1

\* what localStorage holds when the page is loaded
StoredSettings == storage.settings[1]
StoredStats == storage.stats[1]

\* C14: A startup that finds a stored lastActiveDate other than the current
\* day sets lastActiveDate to the current day and leaves the streak and the
\* durations alone; it appends a record with all four counters 0 for the
\* current day if there is none, and leaves every other record as stored.
C14_StartupRollover ==
  [][ (lastOp' = "Restart" /\ StoredSettings.lastActiveDate # today) =>
        /\ settings' = [ StoredSettings EXCEPT !.lastActiveDate = today ]
        /\ dailyStats' =
             IF \E i \in 1 .. Len(StoredStats) : StoredStats[i].date = today
             THEN StoredStats
             ELSE Append(StoredStats,
                         [ date |-> today, pomodorosCompleted |-> 0,
                           minutesFocused |-> 0, breaksTaken |-> 0,
                           tasksCompleted |-> 0 ]) ]_vars

C14_Witness ==
  /\ lastOp = "Restart" /\ today = 2
  /\ settings.lastActiveDate = 2 /\ settings.streak = 1
  /\ Len(dailyStats) = 2
  /\ dailyStats[1].date = 1 /\ dailyStats[1].pomodorosCompleted = 1
  /\ dailyStats[2] = [ date |-> 2, pomodorosCompleted |-> 0,
                       minutesFocused |-> 0, breaksTaken |-> 0,
                       tasksCompleted |-> 0 ]

\* C15: No operation changes a Daily Statistic record whose date is not the
\* current calendar day: completions, startups and the completion of a Task
\* scheduled on any date leave every such record in place and as it was.
C15_OtherDaysUntouched ==
  [][ \A i \in 1 .. Len(dailyStats) :
        dailyStats[i].date # today =>
          /\ i <= Len(dailyStats')
          /\ dailyStats'[i] = dailyStats[i] ]_vars

C15_Witness ==
  /\ lastOp = "ToggleTask" /\ today = 2
  /\ \E k \in 1 .. Len(tasks) : tasks[k].isCompleted /\ tasks[k].date = 1
  /\ Len(dailyStats) = 2
  /\ dailyStats[1].date = 1 /\ dailyStats[1].tasksCompleted = 0
  /\ dailyStats[1].pomodorosCompleted = 1
  /\ dailyStats[2].date = 2 /\ dailyStats[2].tasksCompleted = 1

\* C16: The Daily Statistics never hold two records of one date and never
\* lose a record; a startup leaves every existing record as it was and adds a
\* record only when there is none for the current day.
C16_OneRecordPerDate ==
  /\ \A i, j \in 1 .. Len(dailyStats) :
       dailyStats[i].date = dailyStats[j].date => i = j
  /\ [][ /\ Len(dailyStats') >= Len(dailyStats)
         /\ \A i \in 1 .. Len(dailyStats) :
              dailyStats'[i].date = dailyStats[i].date
         /\ lastOp' = "Restart" =>
              /\ \A i \in 1 .. Len(dailyStats) : dailyStats'[i] = dailyStats[i]
              /\ Len(dailyStats') > Len(dailyStats) =>
                   /\ RecordsOf(today) = {}
                   /\ Len(dailyStats') = Len(dailyStats) + 1 ]_vars

C16_Witness ==
  /\ lastOp = "Restart" /\ today = 2
  /\ Len(dailyStats) = 2
  /\ dailyStats[1].date = 1 /\ dailyStats[1].breaksTaken = 1
  /\ dailyStats[2].date = 2 /\ dailyStats[2].pomodorosCompleted = 1

\* the identifiers of the tasks the step removed
Gone ==
  { tasks[i].id : i \in 1 .. Len(tasks) }
    \ { tasks'[i].id : i \in 1 .. Len(tasks') }

\* the step deleted the active Task
DeletesActive == lastOp' = "DeleteTask" /\ activeTaskId \in Gone

\* C17: Delete removes the one Task and no other. Deleting the active Task
\* clears the active selection and, in Focus mode with the timer not running,
\* sets remaining to Settings.pomodoroTime * 60; deleting another Task leaves
\* the active selection and the timer as they were.
C17_DeleteTask ==
  [][ lastOp' = "DeleteTask" =>
        /\ Cardinality(Gone) = 1
        /\ tasks' = SelectSeq(tasks, LAMBDA t : t.id \notin Gone)
        /\ IF activeTaskId \in Gone
           THEN /\ activeTaskId' = NoTask
                /\ (mode = POMODORO /\ ~ isActive) =>
                     timeLeft' = settings.pomodoroTime * SecondsPerMinute
           ELSE /\ activeTaskId' = activeTaskId
                /\ << mode', timeLeft', isActive' >> = << mode, timeLeft, isActive >> ]_vars

C17_Witness ==
  /\ lastOp = "DeleteTask" /\ activeTaskId = NoTask
  /\ nextId = 2 /\ Len(tasks) = 1
  /\ mode = POMODORO /\ ~ isActive
  /\ timeLeft = settings.pomodoroTime * SecondsPerMinute
  /\ settings.streak = 1

\* C18: After the active Task is deleted, in any timer state, the timer is not
\* running, and in Focus mode remaining = Settings.pomodoroTime * 60.
C18_DeleteActiveLeavesIdle ==
  [][ DeletesActive =>
        /\ ~ isActive'
        /\ mode' = POMODORO =>
             timeLeft' = settings'.pomodoroTime * SecondsPerMinute ]_vars

\* C19: In every reachable state the active Task reference is none or the
\* identifier of exactly one Task of the collection.
C19_ActiveTaskExists ==
  \/ activeTaskId = NoTask
  \/ Cardinality({ i \in 1 .. Len(tasks) : tasks[i].id = activeTaskId }) = 1

C19_Witness ==
  /\ lastOp = "ToggleTask" /\ nextId = 2 /\ Len(tasks) = 1
  /\ activeTaskId = tasks[1].id /\ tasks[1].isCompleted
  /\ tasks[1].id = 2

\* the step is a click on the row of the task with identifier id
Selects(id) == Event("SelectTask", selectTask(Now, id), mode = POMODORO)

\* C20: Select of Task t in Focus mode leaves t active and the timer not
\* running with remaining = t.durationPerPomo * 60; in Break mode it only
\* changes the active Task. It never changes a Task, a statistic or the mode.
C20_SelectTask ==
  [][ \A i \in 1 .. Len(tasks) :
        (lastOp' = "SelectTask" /\ Selects(tasks[i].id)) =>
          /\ activeTaskId' = tasks[i].id
          /\ << tasks', dailyStats', settings', mode' >>
               = << tasks, dailyStats, settings, mode >>
          /\ IF mode = POMODORO
             THEN /\ ~ isActive'
                  /\ timeLeft' = tasks[i].durationPerPomo * SecondsPerMinute
             ELSE << timeLeft', isActive' >> = << timeLeft, isActive >> ]_vars

C20_Witness ==
  /\ lastOp = "SelectTask" /\ mode = BREAK /\ isActive
  /\ Len(tasks) = 2 /\ activeTaskId = tasks[2].id
  /\ tasks[1].completedPomos = 1

\* C21: Add appends one Task whose identifier no existing Task has, not
\* completed and with completedPomos 0, leaves every existing Task as it was,
\* and makes the new Task active exactly when no Task was active.
C21_AddTask ==
  [][ lastOp' = "AddTask" =>
        /\ Len(tasks') = Len(tasks) + 1
        /\ \A i \in 1 .. Len(tasks) : tasks'[i] = tasks[i]
        /\ LET new == tasks'[Len(tasks')]
           IN /\ \A i \in 1 .. Len(tasks) : tasks[i].id # new.id
              /\ ~ new.isCompleted
              /\ new.completedPomos = 0
              /\ activeTaskId' = IF activeTaskId = NoTask THEN new.id
                                 ELSE activeTaskId ]_vars

C21_Witness ==
  /\ lastOp = "AddTask" /\ Len(tasks) = 2
  /\ activeTaskId = tasks[1].id
  /\ tasks[1].completedPomos = 1 /\ tasks[2].completedPomos = 0

\* the step edits the duration of the i-th task to v minutes
Edits(i, v) ==
  Event("UpdateTaskDuration", updateTaskDuration(Now, tasks[i].id, v),
        activeTaskId = tasks[i].id /\ ~ isActive /\ mode = POMODORO)

\* C22: Editing a Task's duration to v changes only that Task's
\* durationPerPomo; remaining becomes v * 60 exactly when that Task is active,
\* the timer is not running and the mode is Focus, and otherwise mode,
\* remaining and running flag stay as they were.
C22_UpdateTaskDuration ==
  [][ \A i \in 1 .. Len(tasks), v \in Durations :
        (lastOp' = "UpdateTaskDuration" /\ Edits(i, v)) =>
          /\ tasks' = [ k \in 1 .. Len(tasks) |->
                          IF k = i THEN [ tasks[k] EXCEPT !.durationPerPomo = v ]
                          ELSE tasks[k] ]
          /\ << mode', isActive', activeTaskId' >> = << mode, isActive, activeTaskId >>
          /\ timeLeft' = IF activeTaskId = tasks[i].id /\ ~ isActive /\ mode = POMODORO
                         THEN v * SecondsPerMinute ELSE timeLeft ]_vars

C22_Witness ==
  /\ lastOp = "UpdateTaskDuration" /\ isActive /\ mode = POMODORO
  /\ activeTaskId # NoTask
  /\ timeLeft > 0
  /\ timeLeft < ActiveTask.durationPerPomo * SecondsPerMinute

\* C23: In every reachable state the progress fraction of the current mode,
\* (full duration - remaining) / full duration, lies in [0, 1] (the bar's
\* percentage in [0, 100]), and is 0 when the full duration is 0.
C23_ProgressInRange ==
  LET p == progressPercentage(Now)
  IN /\ p[2] > 0
     /\ 0 <= p[1] /\ p[1] <= 100 * p[2]
     /\ FullDuration(mode) = 0 => p[1] = 0

\* a number a field of a Task or the timer can safely hold
SafeNumber(n) == n # NaN /\ n # Null /\ n >= 0

\* C24: whatever is typed into the numeric fields, no Task holds an estimate
\* or a duration that is NaN or negative, the timer's remaining is never
\* negative, and a running timer has its interval and time left to count.
C24_NumbersStaySafe ==
  /\ \A i \in 1 .. Len(tasks) :
        SafeNumber(tasks[i].estimatedPomos) /\ SafeNumber(tasks[i].durationPerPomo)
  /\ timeLeft >= 0
  /\ isActive => intervals = 1 /\ timeLeft > 0

\* what a load finds under key k when record lost is missing or malformed
FoundUnder(k, lost, default) ==
  Loaded(IF k = lost THEN Absent ELSE storage[k], default)

\* C25: a load over a store with one record missing or malformed completes
\* startup with that record at its default and the other two as stored
\* (today's Daily Statistic record added when the stored list has none).
C25_LoadFallsBack ==
  [][\A k \in StoreKeys :
       LoseRecord(k) \/ BreakRecord(k) =>
         /\ Mounted'
         /\ tasks' = FoundUnder("tasks", k, << >>)
         /\ settings' = [ FoundUnder("settings", k, DEFAULT_SETTINGS(today))
                            EXCEPT !.lastActiveDate = today ]
         /\ LET found == FoundUnder("stats", k, << >>)
            IN dailyStats' = IF \E i \in 1 .. Len(found) : found[i].date = today
                             THEN found ELSE Append(found, NewDay(today))]_vars

\* C26: while the application is up the three stored records equal the
\* values in memory, and a restart brings back the Task collection, the
\* Settings and the Daily Statistics of before it, apart from the day
\* written to lastActiveDate and a record added for today.
C26_StoreMirrorsMemory ==
  /\ [](Mounted => storage = [ settings   |-> << settings >>,
                               tasks      |-> << tasks >>,
                               stats      |-> << dailyStats >>,
                               unparsable |-> {} ])
  /\ [][Restart =>
         /\ tasks' = tasks
         /\ settings' = [ settings EXCEPT !.lastActiveDate = today ]
         /\ dailyStats' = IF \E i \in 1 .. Len(dailyStats) : dailyStats[i].date = today
                          THEN dailyStats
                          ELSE Append(dailyStats, NewDay(today))]_vars

\* C27: The streak grows by exactly 1 on every Focus completion and no other
\* operation changes it: not a Break completion, Reset, Switch Mode, Toggle,
\* a day change or a restart (the code compares dates for equality only, so
\* any two days of the model stand for days any distance apart).
C27_StreakCountsFocus ==
  [][ settings'.streak = IF Completes(POMODORO) THEN settings.streak + 1
                         ELSE settings.streak ]_vars

C27_Witness ==
  /\ lastOp = "Restart" /\ today = 2
  /\ settings.lastActiveDate = 2 /\ settings.streak = 2
  /\ Len(dailyStats) = 2
  /\ dailyStats[1].pomodorosCompleted = 2 /\ dailyStats[1].breaksTaken = 0
  /\ dailyStats[2].pomodorosCompleted = 0

\* Focus sessions counted in the Daily Statistics
PomodorosCompleted ==
  LET RECURSIVE S(_)
      S(i) == IF i = 0 THEN 0 ELSE dailyStats[i].pomodorosCompleted + S(i - 1)
  IN S(Len(dailyStats))

\* C30: The streak always equals the sum of pomodorosCompleted over all Daily
\* Statistic records.
C30_StreakEqualsSessions == settings.streak = PomodorosCompleted

\* the sum of F(i) over the indices i of S
SumOver(S, F(_)) ==
  LET RECURSIVE Sum(_)
      Sum(T) == IF T = {} THEN 0
                ELSE LET i == CHOOSE i \in T : TRUE IN F(i) + Sum(T \ {i})
  IN Sum(S)

\* C28: The remaining workload for today is the sum of
\* max(0, estimatedPomos - completedPomos) over exactly the Tasks that are
\* incomplete and scheduled for the current day.
C28_RemainingWorkload ==
  remainingPomosToday(tasks, today) =
    SumOver({ i \in 1 .. Len(tasks) : ~ tasks[i].isCompleted /\ tasks[i].date = today },
            LAMBDA i : IF tasks[i].estimatedPomos > tasks[i].completedPomos
                       THEN tasks[i].estimatedPomos - tasks[i].completedPomos
                       ELSE 0)

\* the spec's example: (4,1) and (2,2) give 3
C28_Witness ==
  /\ lastOp = "UpdatePomos" /\ Len(tasks) = 2
  /\ \A i \in 1 .. 2 : ~ tasks[i].isCompleted /\ tasks[i].date = today
  /\ tasks[1].estimatedPomos = 4 /\ tasks[1].completedPomos = 1
  /\ tasks[2].estimatedPomos = 2 /\ tasks[2].completedPomos = 2
  /\ remainingPomosToday(tasks, today) = 3

\* C29: Completed minutes today is the sum of estimatedPomos * durationPerPomo
\* over exactly the Tasks that are completed and scheduled for the current
\* day, whatever their completedPomos and the day they were toggled on.
C29_CompletedMinutes ==
  completedMinutesToday(tasks, today) =
    SumOver({ i \in 1 .. Len(tasks) : tasks[i].isCompleted /\ tasks[i].date = today },
            LAMBDA i : tasks[i].estimatedPomos * tasks[i].durationPerPomo)

C29_Witness ==
  /\ lastOp = "ToggleTask" /\ today = 2 /\ Len(tasks) = 2
  /\ tasks[1].isCompleted /\ tasks[1].date = 2
  /\ tasks[1].estimatedPomos = 3 /\ tasks[1].durationPerPomo = 2
  /\ tasks[1].completedPomos = 0
  /\ tasks[2].isCompleted /\ tasks[2].date = 1
  /\ completedMinutesToday(tasks, today) = 6

\* C31: the active Task is never a completed Task, and no Focus completion
\* increments the completedPomos of a Task that is completed.
C31_ActiveTaskIncomplete ==
  /\ [](HasTask(tasks, activeTaskId) => ~ TaskOf(tasks, activeTaskId).isCompleted)
  /\ [][Completes(POMODORO) =>
         \A k \in 1 .. Len(tasks) :
           tasks[k].isCompleted =>
             tasks'[k].completedPomos = tasks[k].completedPomos]_vars

\* C32: a Skip dispatched at the instant the countdown reaches zero leaves the
\* Tasks, the Daily Statistics, the Settings (streak included) and the mode
\* that the natural completion alone leaves: one credit, one increment, one
\* flip.
C32_SkipAtZeroCreditsOnce ==
  [][SkipAtZero =>
       /\ completed' = 1
       /\ tasks' = NaturalCompletion.tasks
       /\ dailyStats' = NaturalCompletion.dailyStats
       /\ settings' = NaturalCompletion.settings
       /\ mode' = NaturalCompletion.mode]_vars

\* C33: a restart, whatever the timer was doing, gives Focus mode, a timer
\* that is not running and has no interval, no active Task and the stored
\* Settings.pomodoroTime as remaining, and it credits nothing: no
\* completedPomos, no session in the Daily Statistics, no streak.
C33_RestartIsIdle ==
  [][Restart =>
       /\ mode' = POMODORO /\ ~ isActive' /\ intervals' = 0
       /\ activeTaskId' = NoTask
       /\ timeLeft' = StoredSettings.pomodoroTime * SecondsPerMinute
       /\ completed' = 0
       /\ Len(tasks') = Len(tasks)
       /\ \A k \in 1 .. Len(tasks) :
            tasks'[k].completedPomos = tasks[k].completedPomos
       /\ Credits(dailyStats') = Credits(dailyStats)
       /\ settings'.streak = settings.streak]_vars

C33_Witness ==
  /\ lastOp = "Restart"
  /\ mode = POMODORO /\ ~ isActive /\ activeTaskId = NoTask
  /\ Len(tasks) > 0 /\ tasks[1].completedPomos = 1
  /\ settings.streak = 1 /\ BreaksTaken = 0

====
